---- MODULE Spec2Model ----
(***************************************************************************)
(* ETL-Pipelines: the Air Quality pipeline (extract.py, transform.py,      *)
(* load.py, run_pipeline.py, etl_analysis.py), the churn pipeline's        *)
(* transform.py and load.py, and the churn validator validate.py.          *)
(*                                                                         *)
(* Each program is a state machine over its own group of variables; the    *)
(* specifications SpecLoad, SpecChurnLoad, ... run one program each and     *)
(* leave the other groups at their idle values.                            *)
(***************************************************************************)
EXTENDS Integers, Sequences, FiniteSets, TLC

VARIABLES
    \* ---- load.py (both loaders) ----
    df,             \* rows of the staged CSV, in file order
    csvExists,      \* whether the staged CSV is on disk
    batch_size,     \* the batch_size argument of load_to_supabase
    tableEnsured,   \* outcome of ensure_table's RPC (failure is swallowed)
    records,        \* prepare_records(df)
    batches,        \* the list of batches built before the insert loop
    idx,            \* enumerate index of the batch being inserted (from 1)
    attempt,        \* insert_batch's attempt counter
    total_inserted, \* running sum of insert_batch's return values
    store,          \* rows the remote table received, in arrival order
    submitted,      \* the batches handed to the remote insert, first attempt each
    failedBatches,  \* indices of the batches reported "failed permanently"
    summary,        \* the printed Load Summary, or NoSummary
    i,              \* churn loader: the range() offset of the current batch
    inserts,        \* insert_batch's calls of the remote insert, in order
    lpc,            \* position in the loader
    \* ---- transform.py (Air Quality), one row of the frame ----
    hourly,         \* the payload's "hourly" object at one timestamp index
    record,         \* the row built from it, None/NaN as Null
    AQI,            \* df["AQI"] of the row
    severity,       \* df["severity"] of the row
    risk,           \* df["risk"] of the row
    fpc,            \* position in the row's transformation
    \* ---- transform.py (churn), one row of the frame ----
    tenure,
    MonthlyCharges,
    tenure_group,
    MonthlyCharges_group,
    bpc,            \* position in the row's transformation
    \* ---- validate.py ----
    df_csv_rows,    \* len(df_csv), the staged row count
    df_db,          \* the remote rows, one function column -> cell per row
    col_i,          \* index of the missing_columns loop
    report,         \* the printed summary, one entry per check
    vpc,            \* position in validate_load
    \* ---- extract.py ----
    cities,         \* the partitions fetch_all_cities iterates, in dict order
    city_i,         \* index of the city being fetched (from 1)
    fetch_attempt,  \* _fetch_city's attempt counter
    last_error,     \* _fetch_city's last_error
    results,        \* fetch_all_cities' result list
    raw_dir,        \* the files of data/raw
    calls,          \* the requests.get calls of the latest _fetch_city, in order
    sleeps,         \* the time.sleep calls since the latest _fetch_city began
    \* ---- run_pipeline.py ----
    pc,             \* the stage run_full_pipeline is in, or how it ended
    stages,         \* the stages started so far, in order
    frame,          \* the frame transform_raw_to_df returned
    reason          \* the message printed when the run stops early

loadVars == <<df, csvExists, batch_size, tableEnsured, records, batches, idx,
              attempt, total_inserted, store, submitted, failedBatches,
              summary, i, inserts, lpc>>

featVars == <<hourly, record, AQI, severity, risk, fpc>>

bucketVars == <<tenure, MonthlyCharges, tenure_group, MonthlyCharges_group, bpc>>

valVars == <<df_csv_rows, df_db, col_i, report, vpc>>

fetchVars == <<cities, city_i, fetch_attempt, last_error, results, raw_dir,
               calls, sleeps>>

pipeVars == <<pc, stages, frame, reason>>

vars == <<loadVars, featVars, bucketVars, valVars, fetchVars, pipeVars>>

\* what each program leaves alone
notLoadVars == <<featVars, bucketVars, valVars, fetchVars, pipeVars>>
notFeatVars == <<loadVars, bucketVars, valVars, fetchVars, pipeVars>>
notBucketVars == <<loadVars, featVars, valVars, fetchVars, pipeVars>>
notValVars == <<loadVars, featVars, bucketVars, fetchVars, pipeVars>>
notPipelineVars == <<featVars, bucketVars, valVars>>

----------------------------------------------------------------------------
\* Helpers: Python's list semantics

Min(a, b) == IF a <= b THEN a ELSE b

\* s[lo:hi] for 0 <= lo <= hi, with Python's clamping at len(s)
Slice(s, lo, hi) == SubSeq(s, lo + 1, Min(hi, Len(s)))

\* list(range(0, n, step)) for step >= 1, as an ascending sequence
RangeStep(n, step) ==
    IF n <= 0 THEN <<>>
    ELSE [k \in 1..(((n - 1) \div step) + 1) |-> (k - 1) * step]

RECURSIVE Concat(_)
Concat(ss) == IF ss = <<>> THEN <<>> ELSE Head(ss) \o Concat(Tail(ss))

RECURSIVE SumLen(_, _)
SumLen(ss, ks) ==
    IF ks = {} THEN 0
    ELSE LET k == CHOOSE x \in ks : TRUE
         IN  Len(ss[k]) + SumLen(ss, ks \ {k})

CeilDiv(n, b) == (n + b - 1) \div b

NoSummary == [printed |-> FALSE]

----------------------------------------------------------------------------
\* Air Quality loader: src/ETL Air Quality API/load.py

BATCH_SIZE == 200
MAX_RETRIES == 2

\* Bounds of the loader's inputs
MaxSmallRows == 3       \* row counts 0..MaxSmallRows are tried with every batch size
MaxSmallBatch == 2      \* batch sizes 1..MaxSmallBatch besides BATCH_SIZE
MaxFullBatches == 2     \* row counts around k*BATCH_SIZE, k up to this

SmallRowCounts == 0..MaxSmallRows
LargeRowCounts ==
    {k * BATCH_SIZE + d : k \in 1..MaxFullBatches, d \in {-1, 0, 1}}
BatchSizes == (1..MaxSmallBatch) \cup {BATCH_SIZE}

\* The (row count, batch size) pairs a load run is started with
LoadInputs ==
    (SmallRowCounts \X BatchSizes) \cup (LargeRowCounts \X {BATCH_SIZE})

\* The staged CSV of n rows: a row has a key (its position in the file) and
\* the frame's column names (AQI, severity, risk)
StagedRows(n) == [k \in 1..n |-> [key |-> k, columns |-> "frame"]]

\* prepare_records, lines 46-54: one dict per row of df, in df's order, with
\* the columns renamed to the table's (aqi_category, severity_score,
\* risk_flag)
prepare_records(d) ==
    [k \in 1..Len(d) |-> [key |-> d[k].key, columns |-> "table"]]

\* load.py line 78:
\*   [records[i:i + BATCH_SIZE] for i in range(0, len(records), batch_size)]
BuildBatches(recs, bs) ==
    LET starts == RangeStep(Len(recs), bs)
    IN  [k \in 1..Len(starts) |-> Slice(recs, starts[k], starts[k] + BATCH_SIZE)]

LoadIdle ==
    /\ df = <<>> /\ csvExists = FALSE /\ batch_size = 0
    /\ tableEnsured = FALSE /\ records = <<>> /\ batches = <<>>
    /\ idx = 0 /\ attempt = 0 /\ total_inserted = 0 /\ store = <<>>
    /\ submitted = <<>> /\ failedBatches = {} /\ summary = NoSummary
    /\ i = 0 /\ inserts = <<>> /\ lpc = "idle"

\* load_to_supabase is about to be called on a staged CSV of n rows
LoadCall(n, bs, exists) ==
    /\ df = StagedRows(n) /\ csvExists = exists /\ batch_size = bs
    /\ tableEnsured = FALSE /\ records = <<>> /\ batches = <<>>
    /\ idx = 0 /\ attempt = 0 /\ total_inserted = 0 /\ store = <<>>
    /\ submitted = <<>> /\ failedBatches = {} /\ summary = NoSummary
    /\ i = 0 /\ inserts = <<>> /\ lpc = "start"

\* load_to_supabase lines 70-78: the existence check, read_csv, ensure_table
\* (whose failure is caught and printed), prepare_records and the batch list
LoadStart ==
    /\ lpc = "start"
    /\ \E rpcOk \in BOOLEAN :
        IF ~csvExists
        THEN /\ lpc' = "returned"
             /\ UNCHANGED <<tableEnsured, records, batches, idx>>
        ELSE /\ tableEnsured' = rpcOk
             /\ records' = prepare_records(df)
             /\ batches' = BuildBatches(prepare_records(df), batch_size)
             /\ idx' = 1
             /\ lpc' = IF BuildBatches(prepare_records(df), batch_size) = <<>>
                       THEN "summary" ELSE "insert"
    /\ UNCHANGED <<df, csvExists, batch_size, attempt, total_inserted, store,
                   submitted, failedBatches, summary, i, inserts>>
    /\ UNCHANGED notLoadVars

\* the loop of load_to_supabase moves to the next batch, or to the summary
NextBatchPc(k) == IF k > Len(batches) THEN "summary" ELSE "insert"

\* mutant: the loop allows one more retry than MAX_RETRIES
attempt_allowed_once_more(a) == a <= MAX_RETRIES + 1

\* insert_batch line 58: while attempt <= MAX_RETRIES
attempt_allowed(a) == a <= MAX_RETRIES

\* one call of supabase.table(TABLE_NAME).insert(batch).execute()
InsertCall(k, a, ok) == [batch |-> k, attempt |-> a, ok |-> ok]

\* insert_batch lines 58-62: one insert attempt that succeeds
InsertOk ==
    /\ lpc = "insert"
    /\ attempt_allowed(attempt)
    /\ inserts' = Append(inserts, InsertCall(idx, attempt, TRUE))
    /\ store' = store \o batches[idx]
    /\ submitted' = IF attempt = 0 THEN Append(submitted, batches[idx])
                    ELSE submitted
    /\ total_inserted' = total_inserted + Len(batches[idx])
    /\ idx' = idx + 1
    /\ attempt' = 0
    /\ lpc' = NextBatchPc(idx + 1)
    /\ UNCHANGED <<df, csvExists, batch_size, tableEnsured, records, batches,
                   failedBatches, summary, i>>
    /\ UNCHANGED notLoadVars

\* insert_batch lines 63-66: one insert attempt that raises
InsertFail ==
    /\ lpc = "insert"
    /\ attempt_allowed(attempt)
    /\ inserts' = Append(inserts, InsertCall(idx, attempt, FALSE))
    /\ submitted' = IF attempt = 0 THEN Append(submitted, batches[idx])
                    ELSE submitted
    /\ attempt' = attempt + 1
    /\ UNCHANGED <<df, csvExists, batch_size, tableEnsured, records, batches,
                   idx, total_inserted, store, failedBatches, summary, i, lpc>>
    /\ UNCHANGED notLoadVars

\* insert_batch lines 67-68: the while loop ran out, the batch returns 0
InsertGiveUp ==
    /\ lpc = "insert"
    /\ ~attempt_allowed(attempt)
    /\ failedBatches' = failedBatches \cup {idx}
    /\ idx' = idx + 1
    /\ attempt' = 0
    /\ lpc' = NextBatchPc(idx + 1)
    /\ UNCHANGED <<df, csvExists, batch_size, tableEnsured, records, batches,
                   total_inserted, store, submitted, summary, i, inserts>>
    /\ UNCHANGED notLoadVars

\* load_to_supabase lines 81-84: the printed summary
LoadSummary ==
    /\ lpc = "summary"
    /\ summary' = [printed |-> TRUE,
                   total |-> Len(df),
                   inserted |-> total_inserted,
                   failed |-> Len(df) - total_inserted]
    /\ lpc' = "done"
    /\ UNCHANGED <<df, csvExists, batch_size, tableEnsured, records, batches,
                   idx, attempt, total_inserted, store, submitted,
                   failedBatches, i, inserts>>
    /\ UNCHANGED notLoadVars

LoadStep == LoadStart \/ InsertOk \/ InsertFail \/ InsertGiveUp \/ LoadSummary

----------------------------------------------------------------------------
\* Churn loader: src/ETL Pipeline 2/scripts/load.py

CHURN_BATCH_SIZE == 50

MaxChurnBatches == 3    \* row counts around k*CHURN_BATCH_SIZE, k up to this

ChurnRowCounts ==
    SmallRowCounts \cup
    {k * CHURN_BATCH_SIZE + d : k \in 1..MaxChurnBatches, d \in {-1, 0, 1}}

\* the churn load_to_supabase is about to be called on a staged file of n rows
ChurnLoadCall(n, exists) ==
    /\ df = StagedRows(n) /\ csvExists = exists /\ batch_size = 0
    /\ tableEnsured = FALSE /\ records = <<>> /\ batches = <<>>
    /\ idx = 0 /\ attempt = 0 /\ total_inserted = 0 /\ store = <<>>
    /\ submitted = <<>> /\ failedBatches = {} /\ summary = NoSummary
    /\ i = 0 /\ inserts = <<>> /\ lpc = "c_start"

\* lines 20-29: the existence check, get_supabase_client (which raises
\* ValueError when the credentials are missing), read_csv, batch_size = 50
ChurnLoadStart ==
    /\ lpc = "c_start"
    /\ \E creds \in BOOLEAN :
        IF ~csvExists THEN lpc' = "returned"
        ELSE IF ~creds THEN lpc' = "config_error"
        ELSE lpc' = IF Len(df) = 0 THEN "c_done" ELSE "c_loop"
    /\ batch_size' = IF csvExists THEN CHURN_BATCH_SIZE ELSE batch_size
    /\ UNCHANGED <<df, csvExists, tableEnsured, records, batches, idx,
                   attempt, total_inserted, store, submitted, failedBatches,
                   summary, i, inserts>>
    /\ UNCHANGED notLoadVars

\* lines 30-34, one iteration of the for loop whose insert succeeds
ChurnInsertOk ==
    /\ lpc = "c_loop"
    /\ LET batch == Slice(df, i, i + batch_size)   \* df.iloc[i:i + batch_size]
       IN  /\ store' = store \o batch
           /\ submitted' = Append(submitted, batch)
    /\ i' = i + batch_size
    /\ lpc' = IF i + batch_size < Len(df) THEN "c_loop" ELSE "c_done"
    /\ UNCHANGED <<df, csvExists, batch_size, tableEnsured, records, batches,
                   idx, attempt, total_inserted, failedBatches, summary,
                   inserts>>
    /\ UNCHANGED notLoadVars

\* line 33 raises: nothing in load_to_supabase catches it, the loop is left
\* and the exception reaches the caller
ChurnInsertRaise ==
    /\ lpc = "c_loop"
    /\ submitted' = Append(submitted, Slice(df, i, i + batch_size))
    /\ lpc' = "raised"
    /\ UNCHANGED <<df, csvExists, batch_size, tableEnsured, records, batches,
                   idx, attempt, total_inserted, store, failedBatches,
                   summary, i, inserts>>
    /\ UNCHANGED notLoadVars

----------------------------------------------------------------------------
\* Nullable numbers: a float is <<v>>, None and NaN are both <<>>

Null == <<>>
Val(v) == <<v>>
IsNull(x) == x = <<>>

\* NaN-propagating float arithmetic
NumMul(x, w) == IF IsNull(x) THEN Null ELSE Val(x[1] * w)
NumAdd(x, y) == IF IsNull(x) \/ IsNull(y) THEN Null ELSE Val(x[1] + y[1])
\* comparisons with NaN are False
NumGt(x, c) == ~IsNull(x) /\ x[1] > c
NumLt(x, c) == ~IsNull(x) /\ x[1] < c
NumLe(x, c) == ~IsNull(x) /\ x[1] <= c
NumGe(x, c) == ~IsNull(x) /\ x[1] >= c

\* the label Python's None, and pandas' NaN in a label column
None == "None"

----------------------------------------------------------------------------
\* Air Quality feature engine: src/ETL Air Quality API/transform.py

REQUIRED_COLUMNS ==
    <<"pm10", "pm2_5", "carbon_monoxide", "nitrogen_dioxide",
      "sulphur_dioxide", "ozone", "uv_index">>

ColumnSet == {REQUIRED_COLUMNS[k] : k \in 1..Len(REQUIRED_COLUMNS)}

\* the metrics extract.py asks the API for (uv_index is not among them)
RequestedColumns == ColumnSet \ {"uv_index"}

\* Bound of the sampled metric values besides pm2_5
MaxMetric == 1

\* pm2_5 values on both sides of every AQI threshold, and values that put the
\* severity on both sides of the risk thresholds
Pm25Samples == {0, 39, 40, 50, 51, 79, 80, 100, 101, 200, 201, 300, 301}

\* a metric's array at the timestamp index: a number or a JSON null
MetricCells(col) ==
    {Null} \cup {Val(v) : v \in IF col = "pm2_5" THEN Pm25Samples
                                  ELSE 0..MaxMetric}

\* a cell for every requested metric
CellRecords ==
    [pm10 : MetricCells("pm10"), pm2_5 : MetricCells("pm2_5"),
     carbon_monoxide : MetricCells("carbon_monoxide"),
     nitrogen_dioxide : MetricCells("nitrogen_dioxide"),
     sulphur_dioxide : MetricCells("sulphur_dioxide"),
     ozone : MetricCells("ozone")]

\* the "hourly" object at one timestamp index: the metrics in `present` have
\* a cell there, the others are absent from the object (or their array is
\* too short)
HourlyObject(present, cells) == [c \in present |-> cells[c]]

\* lines 62-64: record[col] = values[i] if i < len(values) else None
BuildRecord(h) ==
    [c \in ColumnSet |-> IF c \in DOMAIN h THEN h[c] ELSE Null]

\* pandas Series.get(key, default): the default is used only when the key is
\* not in the index; a NaN cell is returned as NaN
SeriesGet(row, key, default) ==
    IF key \in DOMAIN row THEN row[key] ELSE Val(default)

\* compute_aqi, lines 13-25
compute_aqi(pm2_5) ==
    IF IsNull(pm2_5) THEN None
    ELSE IF pm2_5[1] <= 50 THEN "Good"
    ELSE IF pm2_5[1] <= 100 THEN "Moderate"
    ELSE IF pm2_5[1] <= 200 THEN "Unhealthy"
    ELSE IF pm2_5[1] <= 300 THEN "Very Unhealthy"
    ELSE "Hazardous"

\* compute_severity, lines 27-35
compute_severity(row) ==
    NumAdd(NumAdd(NumAdd(NumAdd(NumAdd(
        NumMul(SeriesGet(row, "pm2_5", 0), 5),
        NumMul(SeriesGet(row, "pm10", 0), 3)),
        NumMul(SeriesGet(row, "nitrogen_dioxide", 0), 4)),
        NumMul(SeriesGet(row, "sulphur_dioxide", 0), 4)),
        NumMul(SeriesGet(row, "carbon_monoxide", 0), 2)),
        NumMul(SeriesGet(row, "ozone", 0), 3))

\* compute_risk, lines 37-43
compute_risk(sev) ==
    IF NumGt(sev, 400) THEN "High Risk"
    ELSE IF NumGt(sev, 200) THEN "Moderate Risk"
    ELSE "Low Risk"

\* dropna(subset=REQUIRED_COLUMNS, how="all"): a row whose every metric is NaN
AllNaN(row) == \A c \in ColumnSet : IsNull(row[c])

FeatIdle ==
    /\ hourly = <<>> /\ record = <<>> /\ AQI = None /\ severity = Null
    /\ risk = None /\ fpc = "idle"

\* lines 60-66: the row of one timestamp is built from the hourly object
BuildRow ==
    /\ fpc = "build"
    /\ record' = BuildRecord(hourly)
    /\ fpc' = "numeric"
    /\ UNCHANGED <<hourly, AQI, severity, risk>>
    /\ UNCHANGED notFeatVars

\* lines 70-72: to_numeric turns None into NaN, dropna(how="all") drops the
\* row when no metric is left
CoerceAndDropna ==
    /\ fpc = "numeric"
    /\ fpc' = IF AllNaN(record) THEN "dropped" ELSE "aqi"
    /\ UNCHANGED <<hourly, record, AQI, severity, risk>>
    /\ UNCHANGED notFeatVars

\* line 73
ApplyAQI ==
    /\ fpc = "aqi"
    /\ AQI' = compute_aqi(record["pm2_5"])
    /\ fpc' = "severity"
    /\ UNCHANGED <<hourly, record, severity, risk>>
    /\ UNCHANGED notFeatVars

\* line 74
ApplySeverity ==
    /\ fpc = "severity"
    /\ severity' = compute_severity(record)
    /\ fpc' = "risk"
    /\ UNCHANGED <<hourly, record, AQI, risk>>
    /\ UNCHANGED notFeatVars

\* line 75
ApplyRisk ==
    /\ fpc = "risk"
    /\ risk' = compute_risk(severity)
    /\ fpc' = "done"
    /\ UNCHANGED <<hourly, record, AQI, severity>>
    /\ UNCHANGED notFeatVars

----------------------------------------------------------------------------
\* Churn feature engine: src/ETL Pipeline 2/scripts/transform.py

\* Bounds of the sampled tenure and MonthlyCharges values
MaxTenure == 61
MaxCharges == 71

\* a bin edge: a number, or float("inf")
Edge(v) == [inf |-> FALSE, v |-> v]
PosInf == [inf |-> TRUE, v |-> 0]

\* lines 12-13
bins == <<Edge(0), Edge(12), Edge(36), Edge(60), PosInf>>
labels == <<"New", "Regular", "Loyal", "Champion">>

EdgeLt(e, x) == ~e.inf /\ e.v < x
LeEdge(x, e) == e.inf \/ x <= e.v

\* mutant: pd.cut with right=False, the bins closed on the left
cut_left_closed(x, bs, ls) ==
    IF IsNull(x) THEN None
    ELSE LET hits == {k \in 1..Len(ls) :
                         /\ ~bs[k].inf /\ bs[k].v <= x[1]
                         /\ (bs[k + 1].inf \/ x[1] < bs[k + 1].v)}
         IN  IF hits = {} THEN None ELSE ls[CHOOSE k \in hits : TRUE]

\* pd.cut(x, bins=bins, labels=labels): right=True, include_lowest=False, so
\* label k covers (bins[k], bins[k+1]]; NaN when x is NaN or in no bin
cut(x, bs, ls) ==
    IF IsNull(x) THEN None
    ELSE LET hits == {k \in 1..Len(ls) : EdgeLt(bs[k], x[1]) /\ LeEdge(x[1], bs[k + 1])}
         IN  IF hits = {} THEN None ELSE ls[CHOOSE k \in hits : TRUE]

\* lines 15-19
\* Series.between(30, 70) is inclusive on both sides
conditions(x) == <<NumLt(x, 30), NumGe(x, 30) /\ NumLe(x, 70), NumGt(x, 70)>>
choices == <<"Low", "Medium", "High">>

\* np.select(conditions, choices, default): the choice of the first condition
\* that is True, the default when none is
select(conds, chs, default) ==
    LET hits == {k \in 1..Len(conds) : conds[k]}
    IN  IF hits = {} THEN default
        ELSE chs[CHOOSE k \in hits : \A j \in hits : k <= j]

BucketIdle ==
    /\ tenure = Null /\ MonthlyCharges = Null /\ tenure_group = None
    /\ MonthlyCharges_group = None /\ bpc = "idle"

\* line 14
CutTenure ==
    /\ bpc = "cut"
    /\ tenure_group' = cut(tenure, bins, labels)
    /\ bpc' = "select"
    /\ UNCHANGED <<tenure, MonthlyCharges, MonthlyCharges_group>>
    /\ UNCHANGED notBucketVars

\* lines 15-23
SelectCharges ==
    /\ bpc = "select"
    /\ MonthlyCharges_group' = select(conditions(MonthlyCharges), choices, "Unknown")
    /\ bpc' = "done"
    /\ UNCHANGED <<tenure, MonthlyCharges, tenure_group>>
    /\ UNCHANGED notBucketVars

----------------------------------------------------------------------------
\* Churn validator: src/ETA pipeline 2/scripts/validate.py

\* line 25
missing_columns == <<"tenure", "MonthlyCharges", "TotalCharges">>

\* str.lower() on the names validate_load looks up
Lower(name) ==
    CASE name = "tenure" -> "tenure"
      [] name = "MonthlyCharges" -> "monthlycharges"
      [] name = "TotalCharges" -> "totalcharges"

\* lines 42, 52, 62
expected_tenure_groups == {"New", "Regular", "Loyal", "Champion"}
expected_charge_groups == {"Low", "Medium", "High"}
expected_contract_codes == {0, 1, 2}

\* every column validate_load looks at
CheckedColumns ==
    {"tenure", "monthlycharges", "totalcharges", "tenure_group",
     "monthlycharges_group", "contract_type_code"}

\* Bound of the small row counts of the staged and the remote set
MaxValRows == 2

StagedCounts == (0..MaxValRows) \cup {100}
RemoteCounts == (0..MaxValRows) \cup {98, 100}

\* sample remote rows: a valid one, one of nulls, one with an invalid code
\* and the labels at the far end
SampleRows ==
    { [tenure |-> Val(5), monthlycharges |-> Val(50), totalcharges |-> Val(250),
       tenure_group |-> "New", monthlycharges_group |-> "Medium",
       contract_type_code |-> Val(0)],
      [tenure |-> Null, monthlycharges |-> Null, totalcharges |-> Null,
       tenure_group |-> None, monthlycharges_group |-> None,
       contract_type_code |-> Null],
      [tenure |-> Val(61), monthlycharges |-> Val(71), totalcharges |-> Null,
       tenure_group |-> "Champion", monthlycharges_group |-> "High",
       contract_type_code |-> Val(5)] }

\* res.data: n rows over the table's columns, the first like `a`, the
\* others like `b`
RemoteData(n, cols, a, b) ==
    [k \in 1..n |-> [c \in cols |-> IF k = 1 THEN a[c] ELSE b[c]]]

\* pd.DataFrame(res.data).columns: the keys of the rows, none for no rows
Columns(d) == IF Len(d) = 0 THEN {} ELSE DOMAIN d[1]

\* the columns that hold labels; the others hold numbers
LabelColumns == {"tenure_group", "monthlycharges_group"}

\* a label cell or a number cell that is None / NaN
IsNullCell(col, x) == IF col \in LabelColumns THEN x = None ELSE x = Null

\* df_db[col].isnull().sum()
NullCount(d, col) == Cardinality({k \in 1..Len(d) : IsNullCell(col, d[k][col])})

\* set(df_db[col].dropna().unique())
Present(d, col) == {d[k][col] : k \in {j \in 1..Len(d) : ~IsNullCell(col, d[j][col])}}

\* set(df_db[col].dropna().astype(int).unique())
PresentInts(d, col) == {x[1] : x \in Present(d, col)}

\* one entry of the report
Entry(check, found, count, present, diff) ==
    [check |-> check, found |-> found, count |-> count, present |-> present,
     diff |-> diff]

\* the "... not found" line of a check
NotFound(check) == Entry(check, FALSE, 0, {}, {})

\* mutant: an absent column is reported like an empty one, as a pass
missing_check_absent_passes(d, col) ==
    IF Lower(col) \in Columns(d)
    THEN Entry(col, TRUE, NullCount(d, Lower(col)), {}, {})
    ELSE Entry(col, TRUE, 0, {}, {})

\* lines 27-32
missing_check(d, col) ==
    IF Lower(col) \in Columns(d)
    THEN Entry(col, TRUE, NullCount(d, Lower(col)), {}, {})
    ELSE NotFound(col)

\* lines 35-39: the entry's diff is empty when the counts match
row_count_check(csv_rows, d) ==
    [check |-> "row_count", csv_rows |-> csv_rows, db_rows |-> Len(d),
     match |-> (csv_rows = Len(d))]

\* lines 43-49 and 53-59: expected - observed
groups_check(d, col, expected) ==
    IF col \in Columns(d)
    THEN Entry(col, TRUE, 0, Present(d, col), expected \ Present(d, col))
    ELSE NotFound(col)

\* lines 63-69: observed - expected
codes_check(d, col, expected) ==
    IF col \in Columns(d)
    THEN Entry(col, TRUE, 0, PresentInts(d, col), PresentInts(d, col) \ expected)
    ELSE NotFound(col)

ValIdle ==
    /\ df_csv_rows = 0 /\ df_db = <<>> /\ col_i = 0 /\ report = <<>>
    /\ vpc = "idle"

\* lines 15-22: the staged file is looked for and read, the client is built
\* (ValueError without credentials) and the table is selected; a failing
\* select is not caught
ValidateStart ==
    /\ vpc = "start"
    /\ \E csvFound \in BOOLEAN, creds \in BOOLEAN, selectOk \in BOOLEAN :
        vpc' = IF ~csvFound THEN "returned"
               ELSE IF ~creds THEN "config_error"
               ELSE IF ~selectOk THEN "select_raised"
               ELSE "missing"
    /\ UNCHANGED <<df_csv_rows, df_db, col_i, report>>
    /\ UNCHANGED notValVars

\* lines 26-32, one iteration of the loop over missing_columns
CheckMissing ==
    /\ vpc = "missing"
    /\ report' = Append(report, missing_check(df_db, missing_columns[col_i]))
    /\ col_i' = col_i + 1
    /\ vpc' = IF col_i + 1 > Len(missing_columns) THEN "row_count" ELSE "missing"
    /\ UNCHANGED <<df_csv_rows, df_db>>
    /\ UNCHANGED notValVars

\* lines 35-39
CheckRowCount ==
    /\ vpc = "row_count"
    /\ report' = Append(report, row_count_check(df_csv_rows, df_db))
    /\ vpc' = "tenure_group"
    /\ UNCHANGED <<df_csv_rows, df_db, col_i>>
    /\ UNCHANGED notValVars

\* lines 42-49
CheckTenureGroups ==
    /\ vpc = "tenure_group"
    /\ report' = Append(report,
                        groups_check(df_db, "tenure_group", expected_tenure_groups))
    /\ vpc' = "charge_group"
    /\ UNCHANGED <<df_csv_rows, df_db, col_i>>
    /\ UNCHANGED notValVars

\* lines 52-59
CheckChargeGroups ==
    /\ vpc = "charge_group"
    /\ report' = Append(report,
                        groups_check(df_db, "monthlycharges_group",
                                     expected_charge_groups))
    /\ vpc' = "contract_code"
    /\ UNCHANGED <<df_csv_rows, df_db, col_i>>
    /\ UNCHANGED notValVars

\* lines 62-70
CheckContractCodes ==
    /\ vpc = "contract_code"
    /\ report' = Append(report,
                        codes_check(df_db, "contract_type_code",
                                    expected_contract_codes))
    /\ vpc' = "done"
    /\ UNCHANGED <<df_csv_rows, df_db, col_i>>
    /\ UNCHANGED notValVars

----------------------------------------------------------------------------
\* Fetcher: src/ETL Air Quality API/extract.py

\* lines 13-19, in dict order
CITIES == <<"Delhi", "Bengaluru", "Hyderabad", "Mumbai", "Kolkata">>

FETCH_MAX_RETRIES == 3

\* line 23, SLEEP_BETWEEN_CALLS = 0.5 seconds; durations are in milliseconds
SLEEP_BETWEEN_CALLS == 500

\* Bounds of a pipeline run
NumCities == 3          \* fetch_all_cities is given the first NumCities of CITIES
RowsPerPayload == 2     \* timestamps of a payload's hourly series
MaxStale == 1           \* cities with a raw file left by an earlier run

\* what the API's 200 response can hold, by what transform_raw_to_df does
\* with it: "series" has an hourly series with a metric in every row,
\* "allnull" an hourly series whose every metric is null, "nohourly" no
\* hourly object, "malformed" a JSON value data.get or pd.to_datetime raises on
PayloadKinds == {"series", "allnull", "nohourly", "malformed"}

\* how _save_raw ends: the .json is written, the .json write raises and the
\* .txt fallback is written, or the fallback's open/write raises too
PersistOutcomes == {"json", "txt", "error"}

\* the messages of the RequestException of a failed attempt
RequestErrors == {"Timeout", "HTTPError"}

RawFile(city, stamp, ext, kind) ==
    [city |-> city, stamp |-> stamp, ext |-> ext, kind |-> kind]

\* the raw files an earlier run can have left in data/raw
StaleFiles ==
    {RawFile(CITIES[k], "earlier", "json", "series") : k \in 1..MaxStale}

FetchIdle ==
    /\ cities = <<>> /\ city_i = 0 /\ fetch_attempt = 0 /\ last_error = None
    /\ results = <<>> /\ raw_dir = {}
    /\ calls = <<>> /\ sleeps = <<>>

\* _save_raw, lines 29-41: the file data/raw gains (a .txt is repr(payload))
SavedFile(city, kind, outcome) ==
    IF outcome = "json" THEN RawFile(city, "run", "json", kind)
    ELSE RawFile(city, "run", "txt", "repr")

\* mutant: the delay grows by one second per failed attempt
backoff_linear(n) == 1000 * n

\* line 64: time.sleep(2 ** (attempt - 1)), with attempt already incremented
backoff(n) == 1000 * 2 ^ (n - 1)

\* lines 50-51: a new _fetch_city starts with no call and no sleep behind it
PriorCalls == IF fetch_attempt = 0 THEN <<>> ELSE calls

PriorSleeps == IF fetch_attempt = 0 THEN <<>> ELSE sleeps

\* one requests.get call of _fetch_city and how its try block ended
Call(city, n, outcome) == [city |-> city, attempt |-> n, outcome |-> outcome]

Sleep(why, ms) == [why |-> why, ms |-> ms]

\* _fetch_city lines 53-60: an attempt whose request succeeds; _save_raw
\* then writes the payload, and an exception of its fallback write is no
\* RequestException, so it leaves _fetch_city, fetch_all_cities and
\* run_full_pipeline
FetchAttemptOk ==
    /\ pc = "Extract"
    /\ city_i <= Len(cities)
    /\ fetch_attempt < FETCH_MAX_RETRIES
    /\ \E kind \in PayloadKinds, outcome \in PersistOutcomes :
        IF outcome = "error"
        THEN /\ pc' = "Raised"
             /\ reason' = "OSError"
             /\ fetch_attempt' = fetch_attempt + 1
             /\ calls' = Append(PriorCalls,
                                Call(cities[city_i], fetch_attempt + 1, "raised"))
             /\ sleeps' = PriorSleeps
             /\ last_error' = last_error
             /\ UNCHANGED <<city_i, results, raw_dir>>
        ELSE /\ raw_dir' = raw_dir \cup {SavedFile(cities[city_i], kind, outcome)}
             /\ results' = Append(results,
                                  [city |-> cities[city_i], success |-> "true",
                                   raw_path |-> SavedFile(cities[city_i], kind, outcome)])
             /\ calls' = Append(PriorCalls,
                                Call(cities[city_i], fetch_attempt + 1, "ok"))
             \* fetch_all_cities line 77, after the result is appended
             /\ sleeps' = Append(PriorSleeps, Sleep("pause", SLEEP_BETWEEN_CALLS))
             /\ city_i' = city_i + 1
             /\ fetch_attempt' = 0
             /\ last_error' = None
             /\ UNCHANGED <<pc, reason>>
    /\ UNCHANGED <<cities, stages, frame>>
    /\ UNCHANGED <<loadVars, notPipelineVars>>

\* _fetch_city lines 53-64: an attempt that raises a RequestException
FetchAttemptFail ==
    /\ pc = "Extract"
    /\ city_i <= Len(cities)
    /\ fetch_attempt < FETCH_MAX_RETRIES
    /\ \E e \in RequestErrors :
        /\ last_error' = e
        /\ calls' = Append(PriorCalls, Call(cities[city_i], fetch_attempt + 1, e))
    /\ fetch_attempt' = fetch_attempt + 1
    /\ sleeps' = Append(PriorSleeps, Sleep("backoff", backoff(fetch_attempt + 1)))
    /\ UNCHANGED <<cities, city_i, results, raw_dir, pipeVars>>
    /\ UNCHANGED <<loadVars, notPipelineVars>>

\* _fetch_city lines 66-67: the loop ran out, the failure is returned as data
FetchGiveUp ==
    /\ pc = "Extract"
    /\ city_i <= Len(cities)
    /\ fetch_attempt >= FETCH_MAX_RETRIES
    /\ results' = Append(results,
                         [city |-> cities[city_i], success |-> "false",
                          error |-> last_error])
    /\ city_i' = city_i + 1
    /\ fetch_attempt' = 0
    /\ last_error' = None
    \* fetch_all_cities line 77, after the result is appended
    /\ sleeps' = Append(sleeps, Sleep("pause", SLEEP_BETWEEN_CALLS))
    /\ UNCHANGED <<cities, raw_dir, calls, pipeVars>>
    /\ UNCHANGED <<loadVars, notPipelineVars>>

----------------------------------------------------------------------------
\* Orchestrator: src/ETL Air Quality API/run_pipeline.py, with
\* transform_raw_to_df and run_analysis as its stages

STAGE_BATCH_SIZE == 200

\* transform.py line 47: raw_dir.glob("*_raw_*.json")
JsonFiles(dir) == {f \in dir : f.ext = "json"}

\* the files in a fixed order (earlier stamps first, then CITIES order)
FileRank(f) ==
    (IF f.stamp = "earlier" THEN 0 ELSE Len(CITIES))
    + (CHOOSE k \in 1..Len(CITIES) : CITIES[k] = f.city)

RECURSIVE FileSeq(_)
FileSeq(fs) ==
    IF fs = {} THEN <<>>
    ELSE LET f == CHOOSE x \in fs : \A y \in fs : FileRank(x) <= FileRank(y)
         IN  <<f>> \o FileSeq(fs \ {f})

\* lines 59-66 and 72: the rows a file contributes that survive dropna
FileRows(f) ==
    IF f.kind = "series"
    THEN [k \in 1..RowsPerPayload |->
              [key |-> <<f.city, f.stamp, k>>, columns |-> "frame"]]
    ELSE <<>>

RECURSIVE RowsOf(_)
RowsOf(files) ==
    IF files = <<>> THEN <<>> ELSE FileRows(Head(files)) \o RowsOf(Tail(files))

\* transform_raw_to_df raises when a payload is no JSON object or holds a
\* timestamp pandas cannot parse (only open/json.load are inside the try)
TransformRaises(dir) == \E f \in JsonFiles(dir) : f.kind = "malformed"

\* mutant: the loop over the raw files stops after the first file
transform_first_file_only(dir) ==
    LET files == FileSeq(JsonFiles(dir))
    IN  IF files = <<>> THEN <<>> ELSE FileRows(Head(files))

\* transform_raw_to_df(RAW_DIR), lines 45-77
transform_raw_to_df(dir) == RowsOf(FileSeq(JsonFiles(dir)))

\* mutant: the run goes on to Load whatever the frame holds
gate_always_loads(fr) == "Load"

\* run_pipeline.py lines 19-21: the stage after Transform
gate(fr) == IF fr = <<>> THEN "Aborted" ELSE "Load"

PipeIdle ==
    /\ pc = "idle" /\ stages = <<>> /\ frame = <<>> /\ reason = None

\* run_pipeline.py lines 14-17: fetch_all_cities has returned
ExtractDone ==
    /\ pc = "Extract"
    /\ city_i > Len(cities)
    /\ pc' = "Transform"
    /\ stages' = Append(stages, "Transform")
    /\ UNCHANGED <<frame, reason, fetchVars>>
    /\ UNCHANGED <<loadVars, notPipelineVars>>

\* run_pipeline.py lines 18-27: the Transform stage, the emptiness gate, the
\* staged CSV and the call of load_to_supabase(OUTPUT_CSV, batch_size=200)
TransformStage ==
    /\ pc = "Transform"
    /\ IF TransformRaises(raw_dir)
       THEN /\ pc' = "Raised"
            /\ reason' = "TransformError"
            /\ UNCHANGED <<stages, frame, loadVars>>
       ELSE LET fr == transform_raw_to_df(raw_dir)
            IN  /\ frame' = fr
                /\ pc' = gate(fr)
                /\ IF gate(fr) = "Load"
                   THEN /\ stages' = Append(stages, "Load")
                        /\ reason' = reason
                        /\ df' = fr /\ csvExists' = TRUE
                        /\ batch_size' = STAGE_BATCH_SIZE
                        /\ lpc' = "start"
                        /\ UNCHANGED <<tableEnsured, records, batches, idx,
                                       attempt, total_inserted, store,
                                       submitted, failedBatches, summary, i,
                                       inserts>>
                   ELSE /\ reason' = "No data to load"
                        /\ UNCHANGED <<stages, loadVars>>
    /\ UNCHANGED <<fetchVars, notPipelineVars>>

\* run_pipeline.py lines 27-30: load_to_supabase has returned
LoadDone ==
    /\ pc = "Load"
    /\ lpc \in {"done", "returned"}
    /\ pc' = "Analyze"
    /\ stages' = Append(stages, "Analyze")
    /\ UNCHANGED <<frame, reason, fetchVars>>
    /\ UNCHANGED <<loadVars, notPipelineVars>>

\* run_pipeline.py lines 31-33 with run_analysis: fetch_table's select is
\* not inside any try, so its failure leaves run_full_pipeline
AnalyzeStage ==
    /\ pc = "Analyze"
    /\ \E selectOk \in BOOLEAN :
        IF selectOk THEN pc' = "Done" /\ reason' = reason
        ELSE pc' = "Raised" /\ reason' = "AnalysisError"
    /\ UNCHANGED <<stages, frame, fetchVars>>
    /\ UNCHANGED <<loadVars, notPipelineVars>>

----------------------------------------------------------------------------
\* Specifications, one per program

InitLoad ==
    /\ \E in \in LoadInputs, exists \in BOOLEAN : LoadCall(in[1], in[2], exists)
    /\ FeatIdle /\ BucketIdle /\ ValIdle /\ FetchIdle /\ PipeIdle

NextLoad == LoadStep

SpecLoad == InitLoad /\ [][NextLoad]_vars

\* load_to_supabase is sequential code whose remote calls return or raise:
\* a step that can be taken is taken
SpecLoadFair == SpecLoad /\ WF_vars(NextLoad)

InitChurnLoad ==
    /\ \E n \in ChurnRowCounts, exists \in BOOLEAN : ChurnLoadCall(n, exists)
    /\ FeatIdle /\ BucketIdle /\ ValIdle /\ FetchIdle /\ PipeIdle

NextChurnLoad == ChurnLoadStart \/ ChurnInsertOk \/ ChurnInsertRaise

SpecChurnLoad == InitChurnLoad /\ [][NextChurnLoad]_vars

\* one row of transform_raw_to_df, for every hourly object
InitFeature ==
    /\ \E present \in SUBSET RequestedColumns, cells \in CellRecords :
           hourly = HourlyObject(present, cells)
    /\ record = <<>> /\ AQI = None /\ severity = Null /\ risk = None
    /\ fpc = "build"
    /\ LoadIdle /\ BucketIdle /\ ValIdle /\ FetchIdle /\ PipeIdle

NextFeature ==
    BuildRow \/ CoerceAndDropna \/ ApplyAQI \/ ApplySeverity \/ ApplyRisk

SpecFeature == InitFeature /\ [][NextFeature]_vars

\* one row of transform_data, for every tenure and MonthlyCharges
InitBucket ==
    /\ tenure \in {Null} \cup {Val(v) : v \in -1..MaxTenure}
    /\ MonthlyCharges \in {Null} \cup {Val(v) : v \in 0..MaxCharges}
    /\ tenure_group = None /\ MonthlyCharges_group = None /\ bpc = "cut"
    /\ LoadIdle /\ FeatIdle /\ ValIdle /\ FetchIdle /\ PipeIdle

NextBucket == CutTenure \/ SelectCharges

SpecBucket == InitBucket /\ [][NextBucket]_vars

\* validate_load is called, for every staged file and remote table
InitValidate ==
    /\ df_csv_rows \in StagedCounts
    /\ \E n \in RemoteCounts, cols \in SUBSET CheckedColumns,
          a \in SampleRows, b \in SampleRows :
           df_db = RemoteData(n, cols, a, b)
    /\ col_i = 1 /\ report = <<>> /\ vpc = "start"
    /\ LoadIdle /\ FeatIdle /\ BucketIdle /\ FetchIdle /\ PipeIdle

NextValidate ==
    ValidateStart \/ CheckMissing \/ CheckRowCount \/ CheckTenureGroups \/ CheckChargeGroups
    \/ CheckContractCodes

SpecValidate == InitValidate /\ [][NextValidate]_vars

\* run_full_pipeline is called with data/raw as an earlier run left it
InitPipeline ==
    /\ cities = SubSeq(CITIES, 1, NumCities)
    /\ city_i = 1 /\ fetch_attempt = 0 /\ last_error = None /\ results = <<>>
    /\ raw_dir \in SUBSET StaleFiles
    /\ calls = <<>> /\ sleeps = <<>>
    /\ pc = "Extract" /\ stages = <<"Extract">> /\ frame = <<>> /\ reason = None
    /\ LoadIdle /\ FeatIdle /\ BucketIdle /\ ValIdle

NextPipeline ==
    \/ FetchAttemptOk \/ FetchAttemptFail \/ FetchGiveUp \/ ExtractDone
    \/ TransformStage
    \/ LoadStep \/ LoadDone
    \/ AnalyzeStage

SpecPipeline == InitPipeline /\ [][NextPipeline]_vars

----------------------------------------------------------------------------
\* Claims about the loaders

\* C1: for every row count n >= 0 and batch size b >= 1, a finished load run
\* has submitted ceil(n/b) batches, each of at most b rows, whose
\* concatenation in submission order is the original row sequence (as
\* records).
C1_BatchesPartitionRows ==
    lpc = "done" =>
        /\ Len(submitted) = CeilDiv(Len(df), batch_size)
        /\ \A k \in 1..Len(submitted) : Len(submitted[k]) <= batch_size
        /\ Concat(submitted) = prepare_records(df)

\* C2: at the end of every load run, rows attempted = rows inserted + rows
\* failed, and the rows reported as failed are exactly the rows of the
\* batches that exhausted their retries.
C2_LoadAccounting ==
    lpc = "done" =>
        /\ summary.total = summary.inserted + summary.failed
        /\ summary.failed = SumLen(batches, failedBatches)

\* C3: a batch whose insert fails on every allowed attempt never stops the
\* load run and never raises to the caller: the run ends normally with every
\* batch of the staged rows submitted.
C3_FailedBatchNeverStopsLoad ==
    /\ lpc # "raised"
    /\ lpc \in {"done", "c_done"} =>
           Len(submitted) = CeilDiv(Len(df), batch_size)

\* the remote insert calls made for batch k, in order
CallsFor(k) == SelectSeq(inserts, LAMBDA c : c.batch = k)

\* the batches that had a successful insert
InsertedBatches ==
    {k \in 1..Len(batches) : \E j \in 1..Len(inserts) :
                                 inserts[j].batch = k /\ inserts[j].ok}

\* the attempts of a load run so far: per batch at most 1 + 2 of them,
\* numbered from the first, none after a successful one; the batches are
\* attempted in order; each batch with a successful insert is counted once,
\* with all its rows
AttemptsBounded ==
    /\ \A k \in 1..Len(batches) :
           LET cs == CallsFor(k)
           IN  /\ Len(cs) <= 1 + 2
               /\ \A j \in 1..Len(cs) : cs[j].attempt = j - 1
               /\ \A j \in 1..(Len(cs) - 1) : ~cs[j].ok
    /\ \A j \in 1..Len(inserts) :
           /\ inserts[j].batch \in 1..Len(batches)
           /\ j > 1 => inserts[j - 1].batch <= inserts[j].batch
    /\ total_inserted = SumLen(batches, InsertedBatches)
    /\ Len(inserts) <= 3 * Len(batches)

\* load_to_supabase has returned
LoadRunOver == lpc \in {"done", "returned"}

\* C13: for each batch the loader makes one insert attempt plus at most 2
\* retries, none after the batch's first successful insert, and counts the
\* whole batch as inserted exactly once on success; so a load run makes at
\* most 3 * (number of batches) insert attempts, and it terminates.
C13_BoundedRetriesThenTermination ==
    /\ []AttemptsBounded
    /\ <>LoadRunOver

\* two batches: the first inserted on its last allowed attempt, the second
\* failed on all three
C13_Witness ==
    /\ lpc = "done"
    /\ Len(batches) = 2
    /\ inserts = <<InsertCall(1, 0, FALSE), InsertCall(1, 1, FALSE),
                   InsertCall(1, 2, TRUE), InsertCall(2, 0, FALSE),
                   InsertCall(2, 1, FALSE), InsertCall(2, 2, FALSE)>>
    /\ total_inserted = Len(batches[1])
    /\ failedBatches = {2}

----------------------------------------------------------------------------
\* Claims about the feature engines

\* a metric's contribution when a missing value counts as zero
ZeroFilled(row, col) == IF IsNull(row[col]) THEN 0 ELSE row[col][1]

WeightedSum(row) ==
    ZeroFilled(row, "pm2_5") * 5 + ZeroFilled(row, "pm10") * 3
    + ZeroFilled(row, "nitrogen_dioxide") * 4
    + ZeroFilled(row, "sulphur_dioxide") * 4
    + ZeroFilled(row, "carbon_monoxide") * 2 + ZeroFilled(row, "ozone") * 3

\* C7: the severity of a row is the weighted sum pm2_5*5 + pm10*3 +
\* nitrogen_dioxide*4 + sulphur_dioxide*4 + carbon_monoxide*2 + ozone*3 in
\* which a missing metric contributes zero, so it is never null because of a
\* missing metric.
C7_SeverityZeroFillsMissing ==
    fpc \in {"risk", "done"} => severity = Val(WeightedSum(record))

\* the threshold bands of the two classifications, as the claim lists them
AqiBand(v) ==
    CASE v <= 50 -> "Good"
      [] v > 50 /\ v <= 100 -> "Moderate"
      [] v > 100 /\ v <= 200 -> "Unhealthy"
      [] v > 200 /\ v <= 300 -> "Very Unhealthy"
      [] v > 300 -> "Hazardous"

RiskBand(v) ==
    CASE v > 400 -> "High Risk"
      [] v > 200 /\ v <= 400 -> "Moderate Risk"
      [] v <= 200 -> "Low Risk"

\* C9: every non-null input gets the label of the one band that contains it,
\* and a null input (null pm2_5, null score) gets a null label, never an AQI
\* or risk label.
C9_NullInputGetsNullLabel ==
    fpc = "done" =>
        /\ AQI = IF IsNull(record["pm2_5"]) THEN None
                 ELSE AqiBand(record["pm2_5"][1])
        /\ risk = IF IsNull(severity) THEN None ELSE RiskBand(severity[1])

\* the declared ranges of the two churn features
TenureBand(v) ==
    CASE v <= 0 -> None
      [] v >= 1 /\ v <= 12 -> "New"
      [] v >= 13 /\ v <= 36 -> "Regular"
      [] v >= 37 /\ v <= 60 -> "Loyal"
      [] v >= 61 -> "Champion"

ChargesBand(v) ==
    CASE v < 30 -> "Low"
      [] v >= 30 /\ v <= 70 -> "Medium"
      [] v > 70 -> "High"

\* C8 as stated: each value gets the label of the single declared range that
\* contains it, boundary values included, and a null label when the value is
\* null or outside all ranges, for tenure and for MonthlyCharges alike.
C8_NullValueGetsNullLabel ==
    bpc = "done" =>
        /\ tenure_group = IF IsNull(tenure) THEN None ELSE TenureBand(tenure[1])
        /\ MonthlyCharges_group = IF IsNull(MonthlyCharges) THEN None
                                  ELSE ChargesBand(MonthlyCharges[1])

\* C8 as amended: each value gets the label of the single declared range that
\* contains it (tenure 12 -> New, 36 -> Regular, 60 -> Loyal; MonthlyCharges
\* 30 and 70 -> Medium); a tenure that is null or outside all ranges
\* (tenure <= 0) gets a null label; a null MonthlyCharges gets the
\* placeholder label "Unknown", and no non-null MonthlyCharges is outside
\* the three ranges.
C8_BucketingPerDeclaredRanges ==
    bpc = "done" =>
        /\ tenure_group = IF IsNull(tenure) THEN None ELSE TenureBand(tenure[1])
        /\ MonthlyCharges_group = IF IsNull(MonthlyCharges) THEN "Unknown"
                                  ELSE ChargesBand(MonthlyCharges[1])
        /\ tenure = Val(12) => tenure_group = "New"
        /\ tenure = Val(36) => tenure_group = "Regular"
        /\ tenure = Val(60) => tenure_group = "Loyal"
        /\ tenure = Val(0) => tenure_group = None
        /\ MonthlyCharges \in {Val(30), Val(70)} => MonthlyCharges_group = "Medium"

\* a boundary tenure and a null MonthlyCharges have been bucketed
C8_Witness ==
    /\ bpc = "done"
    /\ tenure = Val(12) /\ tenure_group = "New"
    /\ IsNull(MonthlyCharges) /\ MonthlyCharges_group = "Unknown"

----------------------------------------------------------------------------
\* Claims about the validator

\* the column a report entry is about (entry 4 is the row count)
EntryColumn(k) ==
    CASE k \in 1..3 -> Lower(missing_columns[k])
      [] k = 5 -> "tenure_group"
      [] k = 6 -> "monthlycharges_group"
      [] k = 7 -> "contract_type_code"

\* validate_load has both sets and is at one of its checks
CheckPositions ==
    {"missing", "row_count", "tenure_group", "charge_group", "contract_code"}

\* C10: for any staged set and any remote set validate_load runs to its end
\* and reports every check: the row counts are reported as matching exactly
\* when they are equal, each check whose column is absent from the remote
\* set is reported as not found, and every other check still reports what
\* its own column holds.
C10_EveryCheckReported ==
    /\ vpc \in CheckPositions => ENABLED NextValidate
    /\ vpc = "done" =>
        /\ Len(report) = 7
        /\ report[4].match = (df_csv_rows = Len(df_db))
        /\ report[4].csv_rows = df_csv_rows /\ report[4].db_rows = Len(df_db)
        /\ \A k \in {1, 2, 3, 5, 6, 7} :
               report[k].found = (EntryColumn(k) \in Columns(df_db))
        /\ \A k \in 1..3 :
               report[k].found =>
                   report[k].count =
                       Cardinality({j \in 1..Len(df_db) :
                                      df_db[j][EntryColumn(k)] = Null})
        /\ \A k \in {5, 6} :
               report[k].found =>
                   \A g \in (IF k = 5 THEN expected_tenure_groups
                             ELSE expected_charge_groups) :
                       g \in report[k].diff <=>
                           \A j \in 1..Len(df_db) : df_db[j][EntryColumn(k)] # g
        /\ report[7].found =>
               \A c \in 0..9 :
                   c \in report[7].diff <=>
                       /\ c \notin {0, 1, 2}
                       /\ \E j \in 1..Len(df_db) :
                              df_db[j]["contract_type_code"] = Val(c)

\* 100 staged rows against 98 remote rows without a tenure_group column and
\* with an invalid contract code: the mismatch, the absent column and the
\* invalid code are all in the report
C10_Witness ==
    /\ vpc = "done"
    /\ df_csv_rows = 100 /\ Len(df_db) = 98
    /\ report[4].match = FALSE
    /\ "tenure_group" \notin Columns(df_db) /\ report[5].found = FALSE
    /\ report[6].found = TRUE
    /\ report[7].found = TRUE /\ report[7].diff = {5}

----------------------------------------------------------------------------
\* Claims about the fetcher and the orchestrator

\* the Extract stage is over, however it ended
ExtractOver == pc \in {"Transform", "Load", "Analyze", "Done", "Aborted", "Raised"}

\* C6: the fetcher never raises past its boundary: whatever the remote call
\* and the persisting of the payload do, fetch_all_cities attempts every
\* partition and returns exactly one result per partition, in input order,
\* each tagged success or failure.
C6_OneResultPerPartition ==
    ExtractOver =>
        /\ Len(results) = Len(cities)
        /\ \A k \in 1..Len(results) :
               /\ results[k].city = cities[k]
               /\ results[k].success \in {"true", "false"}

\* the waits of _fetch_city itself, without fetch_all_cities' pause
Backoffs == SelectSeq(sleeps, LAMBDA w : w.why = "backoff")

\* the calls of the latest _fetch_city that ended in a RequestException
FailedCalls == SelectSeq(calls, LAMBDA c : c.outcome \in RequestErrors)

\* the latest _fetch_city has returned its result
Returned ==
    /\ calls # <<>> /\ results # <<>>
    /\ results[Len(results)].city = calls[1].city

\* C12: for one partition the fetcher makes at most 3 attempts and none after
\* the first successful one; it waits 1s, 2s, 4s after the first, second and
\* third failed attempt; and it returns a result marked failed exactly after
\* 3 failed attempts, carrying the error message of the last attempt.
C12_BoundedFetchWithBackoff ==
    /\ Len(calls) <= 3
    /\ \A k \in 1..Len(calls) :
           /\ calls[k].attempt = k
           /\ calls[k].city = calls[1].city
    /\ \A k \in 1..(Len(calls) - 1) : calls[k].outcome \in RequestErrors
    /\ Len(Backoffs) = Len(FailedCalls)
    /\ \A k \in 1..Len(Backoffs) :
           Backoffs[k].ms = <<1000, 2000, 4000>>[k]
    /\ (pc = "Extract" /\ Len(FailedCalls) = 3 /\ ~Returned) =>
           /\ ENABLED FetchGiveUp
           /\ ~ENABLED FetchAttemptOk /\ ~ENABLED FetchAttemptFail
    /\ Returned =>
           LET res == results[Len(results)]
           IN  /\ res.success = "false" <=> Len(FailedCalls) = 3
               /\ res.success = "true" <=> calls[Len(calls)].outcome = "ok"
               /\ res.success = "false" => res.error = calls[3].outcome

\* a partition given up after a timeout, a timeout and an HTTP error: the
\* result carries the third attempt's message
C12_Witness ==
    /\ Returned
    /\ results[Len(results)].success = "false"
    /\ results[Len(results)].error = "HTTPError"
    /\ calls[1].outcome = "Timeout" /\ calls[2].outcome = "Timeout"
    /\ calls[3].outcome = "HTTPError"
    /\ Backoffs = <<Sleep("backoff", 1000), Sleep("backoff", 2000),
                    Sleep("backoff", 4000)>>

\* the partitions whose _fetch_city returned a failure
FailedResults == {k \in 1..Len(results) : results[k].success = "false"}

\* partition k was fetched: an hourly series with metrics, persisted as the
\* partition's .json raw payload
FetchedSeries(k) ==
    /\ results[k].success = "true"
    /\ results[k].raw_path.ext = "json"
    /\ results[k].raw_path.kind = "series"

\* fetch_all_cities has returned: one partition failed, the others succeeded
OneFailedOthersSucceeded ==
    /\ Len(results) = Len(cities)
    /\ Cardinality(FailedResults) = 1
    /\ \A k \in 1..Len(results) : k \notin FailedResults => FetchedSeries(k)

\* transform_raw_to_df has returned its frame
TransformReturned ==
    \/ pc \in {"Load", "Analyze", "Done", "Aborted"}
    \/ pc = "Raised" /\ reason = "AnalysisError"

\* every row of raw file f is in the frame, once
InFrame(f) ==
    \A j \in 1..Len(FileRows(f)) :
        Cardinality({n \in 1..Len(frame) : frame[n] = FileRows(f)[j]}) = 1

\* C11: in a run where one partition fails after exhausting its 3 fetch
\* attempts and the other partitions succeed, Transform does not raise and
\* its frame holds the rows of every successful partition, the run does not
\* end in Aborted, and when every insert succeeds the load reports
\* failed = 0 with every row of the frame inserted.
C11_PartialFetchFailureStillLoads ==
    OneFailedOthersSucceeded =>
        /\ pc # "Aborted"
        /\ ~(pc = "Raised" /\ reason = "TransformError")
        /\ TransformReturned =>
               /\ frame # <<>>
               /\ \A k \in 1..Len(results) :
                      k \notin FailedResults => InFrame(results[k].raw_path)
        /\ (lpc = "done" /\ \A j \in 1..Len(inserts) : inserts[j].ok) =>
               /\ summary.failed = 0
               /\ summary.inserted = Len(frame)
               /\ store = prepare_records(frame)

\* three partitions, the second given up after three attempts, the rows of
\* the other two transformed and loaded, the run ended normally
C11_Witness ==
    /\ pc = "Done"
    /\ Len(cities) = 3 /\ OneFailedOthersSucceeded /\ FailedResults = {2}
    /\ Len(frame) = 2 * RowsPerPayload
    /\ InFrame(results[1].raw_path) /\ InFrame(results[3].raw_path)
    /\ \A j \in 1..Len(inserts) : inserts[j].ok
    /\ summary.printed /\ summary.failed = 0

\* C14: runs share no state: the rows a run transforms and loads come only
\* from the partitions fetched successfully in that same run, never from raw
\* payloads persisted by an earlier run; a run in which every fetch fails
\* has an empty frame and ends in Aborted.
C14_RunsShareNoState ==
    TransformReturned =>
        /\ \A n \in 1..Len(frame) :
               /\ frame[n].key[2] = "run"
               /\ \E k \in 1..Len(results) :
                      /\ results[k].success = "true"
                      /\ results[k].city = frame[n].key[1]
        /\ \A n \in 1..Len(store) : store[n].key[2] = "run"
        /\ FailedResults = 1..Len(results) => frame = <<>> /\ pc = "Aborted"

\* C5: a failure raised inside any stage is caught at the orchestrator
\* boundary: run_full_pipeline never lets a stage exception reach its caller.
C5_NoStageExceptionPropagates == pc # "Raised"

StageOrder == <<"Extract", "Transform", "Load", "Analyze">>

IsPrefix(s, t) == Len(s) <= Len(t) /\ s = SubSeq(t, 1, Len(s))

Started(stage) == \E k \in 1..Len(stages) : stages[k] = stage

\* C4: the stages start in the order Extract, Transform, Load, Analyze and
\* only the last started one is running; Load and Analyze start only for a
\* non-empty frame; an empty frame ends the run in Aborted with its reason
\* and without Load or Analyze; and once Load has started it always ends and
\* Analyze starts after it, whatever number of batches failed.
C4_StagesInOrderAndGated ==
    /\ IsPrefix(stages, StageOrder)
    /\ pc \in {"Extract", "Transform", "Load", "Analyze"} =>
           stages[Len(stages)] = pc
    /\ lpc \in {"start", "insert", "summary"} => pc = "Load"
    /\ (pc # "idle" /\ city_i <= Len(cities)) => pc \in {"Extract", "Raised"}
    /\ (Started("Load") \/ Started("Analyze")) => frame # <<>>
    /\ pc = "Aborted" =>
           /\ frame = <<>>
           /\ reason = "No data to load"
           /\ stages = <<"Extract", "Transform">>
    /\ (pc \in {"Load", "Analyze", "Done", "Aborted"} /\ frame = <<>>) =>
           pc = "Aborted"
    /\ pc = "Load" => ENABLED NextPipeline
    /\ (Started("Load") /\ pc # "Load") => Started("Analyze")

\* a run whose only batch failed for good and that still analyzed and ended
C4_Witness ==
    /\ pc = "Done"
    /\ stages = StageOrder
    /\ failedBatches = {1}
    /\ summary.printed /\ summary.inserted = 0

====
